---- MODULE Spec2Model ----
(***************************************************************************)
(* A model of frogmouth's forge support code (frogmouth/utility/forge.py): *)
(* the raw URL resolver build_raw_forge_url with its four forge entry      *)
(* points, the GitHub star importer _import_github_repo_details and        *)
(* import_github_stars, which resolves the README of every star; and of    *)
(* the store of GitHub stars (frogmouth/data/github_stars.py).             *)
(*                                                                         *)
(* A format string is the sequence of its literal texts and replacement    *)
(* fields, as str.format reads it, and a URL is the string that formatting *)
(* yields.  Every await of the code (client.head, client.get) is split     *)
(* into the request and the handling of its outcome; the code between two  *)
(* awaits is one step.                                                     *)
(***************************************************************************)
EXTENDS Integers, Sequences, FiniteSets, TLC

VARIABLES call, import, stars, tasks, store

vars == <<call, import, stars, tasks, store>>

(***************************************************************************)
(* Values                                                                  *)
(***************************************************************************)

\* Python's None where a string is expected: branch, desired_file, the URL
\* of a missing "next" link, a result that is no URL.
None == "None"

\* bool(s) of an optional string: None and the empty string are false.
Truthy(s) == s # None /\ s # ""

(***************************************************************************)
(* The forge URL templates                                                 *)
(***************************************************************************)

GitHubFormat ==
    <<"https://raw.githubusercontent.com/", "{owner}", "/", "{repository}",
      "/", "{branch}", "/", "{file}">>

GitLabFormat ==
    <<"https://gitlab.com/", "{owner}", "/", "{repository}", "/-/raw/",
      "{branch}", "/", "{file}">>

BitbucketFormat ==
    <<"https://bitbucket.org/", "{owner}", "/", "{repository}", "/raw/",
      "{branch}", "/", "{file}">>

CodebergFormatSingleSeparator ==
    <<"https://codeberg.org/", "{owner}", "/", "{repository}",
      "/raw/branch/", "{branch}", "/", "{file}">>

CodebergFormat ==
    <<"https://codeberg.org/", "{owner}", "/", "{repository}",
      "/raw//branch/", "{branch}", "/", "{file}">>

\* The four entry points: build_raw_<forge>_url passes its template on.
Forges == {"github", "gitlab", "bitbucket", "codeberg"}

UrlFormatOf(forge) ==
    CASE forge = "github"    -> GitHubFormat
      [] forge = "gitlab"    -> GitLabFormat
      [] forge = "bitbucket" -> BitbucketFormat
      [] forge = "codeberg"  -> CodebergFormat

RECURSIVE Join(_)
Join(parts) == IF parts = <<>> THEN "" ELSE Head(parts) \o Join(Tail(parts))

\* url_format.format(owner=, repository=, branch=, file=)
Format(url_format, owner, repository, branch, file) ==
    Join([k \in 1..Len(url_format) |->
            CASE url_format[k] = "{owner}"      -> owner
              [] url_format[k] = "{repository}" -> repository
              [] url_format[k] = "{branch}"     -> branch
              [] url_format[k] = "{file}"       -> file
              [] OTHER                          -> url_format[k]])

(***************************************************************************)
(* build_raw_forge_url                                                     *)
(***************************************************************************)

\* desired_file or "README.md"
DesiredFile(desired_file) ==
    IF Truthy(desired_file) THEN desired_file ELSE "README.md"

\* (branch,) if branch else ("main", "master")
TestBranchesMasterFirst(branch) ==
    IF Truthy(branch) THEN <<branch>> ELSE <<"master", "main">>

TestBranches(branch) ==
    IF Truthy(branch) THEN <<branch>> ELSE <<"main", "master">>

\* What `await client.head(...)` can end in.  The httpx.RequestError family
\* is what the first except clause catches; httpx.InvalidURL is raised for a
\* URL that cannot be parsed and is no RequestError; otherwise a response
\* with a status code arrives (redirects followed).
RequestErrors ==
    {"ConnectError:dns", "ConnectError:refused", "ConnectTimeout",
     "UnsupportedProtocol"}

OtherErrors == {"InvalidURL"}

StatusCodes == {200, 204, 304, 404, 500}

HeadOutcomes ==
    [kind : {"RequestError"}, error : RequestErrors, status : {0}]
        \cup [kind : {"Exception"}, error : OtherErrors, status : {0}]
        \cup [kind : {"Response"}, error : {"-"}, status : StatusCodes]

\* Response.raise_for_status() raises HTTPStatusError unless is_success.
IsSuccess(status) == status >= 200 /\ status <= 299

\* The arguments of a call and the state at its entry to the for loop.
Resolve(forge, owner, repository, branch, desired_file) ==
    [forge        |-> forge,
     url_format   |-> UrlFormatOf(forge),
     owner        |-> owner,
     repository   |-> repository,
     branch       |-> branch,
     desired_file |-> DesiredFile(desired_file),
     given_file   |-> desired_file,
     branches     |-> TestBranches(branch),
     i            |-> 1,
     pc           |-> "head",
     url          |-> None,
     probes       |-> <<>>,
     responses    |-> <<>>,
     outcome      |-> "pending",
     error        |-> "-",
     result       |-> None]

\* The loop body up to the await: build the URL and send the HEAD request.
SendHead(c) ==
    LET url == Format(c.url_format, c.owner, c.repository, c.branches[c.i],
                      c.desired_file)
    IN  [c EXCEPT !.url = url,
                  !.probes = Append(@, [branch |-> c.branches[c.i], url |-> url]),
                  !.pc = "await"]

Return(c, value) ==
    [c EXCEPT !.pc = "done",
              !.outcome = IF value = None THEN "None" ELSE "URL",
              !.result = value]

Raise(c, error) ==
    [c EXCEPT !.pc = "done", !.outcome = "raise", !.error = error]

\* except RequestError: return None
OnRequestErrorTryNext(c) ==
    IF c.i < Len(c.branches)
        THEN [c EXCEPT !.i = @ + 1, !.pc = "head"]
        ELSE Return(c, None)

OnRequestError(c) == Return(c, None)

\* response.raise_for_status(); return URL(url) / except HTTPStatusError:
\* pass, on to the next test_branch, and return None after the last one.
OnResponseTryAll(c, status) ==
    IF c.i < Len(c.branches)
        THEN [c EXCEPT !.i = @ + 1, !.pc = "head"]
        ELSE IF IsSuccess(status) THEN Return(c, c.url) ELSE Return(c, None)

OnResponseRetryOnce(c, status) ==
    IF IsSuccess(status)
        THEN Return(c, c.url)
        ELSE IF Len(c.responses) < c.i + 1
                 THEN [c EXCEPT !.pc = "head"]
                 ELSE IF c.i < Len(c.branches)
                          THEN [c EXCEPT !.i = @ + 1, !.pc = "head"]
                          ELSE Return(c, None)

OnResponse(c, status) ==
    IF IsSuccess(status)
        THEN Return(c, c.url)
        ELSE IF c.i < Len(c.branches)
                 THEN [c EXCEPT !.i = @ + 1, !.pc = "head"]
                 ELSE Return(c, None)

\* The rest of the loop body, from the outcome of the await on.
AfterHead(c, o) ==
    LET d == [c EXCEPT !.responses = Append(@, o)]
    IN  CASE o.kind = "RequestError" -> OnRequestError(d)
          [] o.kind = "Exception"    -> Raise(d, o.error)
          [] o.kind = "Response"     -> OnResponse(d, o.status)

(***************************************************************************)
(* _import_github_repo_details                                             *)
(***************************************************************************)

\* total_repos=None
NoLimit == <<>>

\* The starred_at strings of the feed, by their parts, and
\* datetime.strptime(starred_at, "%Y-%m-%dT%H:%M:%SZ"): the literals T and Z
\* must be there and every field in the range of its directive.
Stamp(date, sep, time, zone) ==
    [date |-> date, sep |-> sep, time |-> time, zone |-> zone]

Parses(starred_at) ==
    /\ starred_at.sep = "T"
    /\ starred_at.zone = "Z"
    /\ starred_at.date[1] \in 1..9999
    /\ starred_at.date[2] \in 1..12
    /\ starred_at.date[3] \in 1..31
    /\ starred_at.time[1] \in 0..23
    /\ starred_at.time[2] \in 0..59
    /\ starred_at.time[3] \in 0..61

Strptime(starred_at) ==
    [year   |-> starred_at.date[1], month  |-> starred_at.date[2],
     day    |-> starred_at.date[3], hour   |-> starred_at.time[1],
     minute |-> starred_at.time[2], second |-> starred_at.time[3]]

\* One item of a page of the star+json feed.
Star(login, name, starred_at) ==
    [repo |-> [owner |-> [login |-> login], name |-> name],
     starred_at |-> starred_at]

\* details = {"owner": ..., "repo_name": ..., "starred_at": timestamp}
Details(repo_info) ==
    [owner      |-> repo_info.repo.owner.login,
     repo_name  |-> repo_info.repo.name,
     starred_at |-> Strptime(repo_info.starred_at)]

\* total_repos is not None and len(repo_details) >= total_repos
LimitReached(repo_details, total_repos) ==
    total_repos # NoLimit /\ Len(repo_details) >= total_repos[1]

\* for repo_info in stars_response: ... append ... break at the limit.
\* The list as the loop leaves it, and whether strptime raised.
RECURSIVE ForEachStarSkipUnparsed(_, _, _)
ForEachStarSkipUnparsed(repo_details, stars_response, total_repos) ==
    IF stars_response = <<>>
        THEN [repo_details |-> repo_details, raised |-> FALSE]
        ELSE IF ~Parses(Head(stars_response).starred_at)
                 THEN ForEachStarSkipUnparsed(repo_details,
                                              Tail(stars_response), total_repos)
                 ELSE LET appended ==
                              Append(repo_details, Details(Head(stars_response)))
                      IN  IF LimitReached(appended, total_repos)
                              THEN [repo_details |-> appended, raised |-> FALSE]
                              ELSE ForEachStarSkipUnparsed(
                                       appended, Tail(stars_response), total_repos)

RECURSIVE ForEachStar(_, _, _)
ForEachStar(repo_details, stars_response, total_repos) ==
    IF stars_response = <<>>
        THEN [repo_details |-> repo_details, raised |-> FALSE]
        ELSE IF ~Parses(Head(stars_response).starred_at)
                 THEN [repo_details |-> repo_details, raised |-> TRUE]
                 ELSE LET appended ==
                              Append(repo_details, Details(Head(stars_response)))
                      IN  IF LimitReached(appended, total_repos)
                              THEN [repo_details |-> appended, raised |-> FALSE]
                              ELSE ForEachStar(appended, Tail(stars_response),
                                               total_repos)

\* f"https://api.github.com/users/{username}/starred"
StarredURL(username) ==
    Join(<<"https://api.github.com/users/", username, "/starred">>)

\* The state of a call at its entry to the while loop.
Import(username, total_repos) ==
    [username             |-> username,
     total_repos          |-> total_repos,
     repo_details         |-> <<>>,
     next_page_of_results |-> StarredURL(username),
     pc                   |-> "get",
     gets                 |-> <<>>,
     responses            |-> <<>>,
     outcome              |-> "pending",
     error                |-> "-"]

\* while next_page_of_results: the loop test, and return repo_details.
ReturnList(m) == [m EXCEPT !.pc = "done", !.outcome = "list"]

WhileNextPageStop(m) == ReturnList(m)

WhileNextPage(m) ==
    IF Truthy(m.next_page_of_results)
        THEN [m EXCEPT !.pc = "get"]
        ELSE ReturnList(m)

\* await client.get(next_page_of_results, headers=...): the request.
SendGet(m) ==
    [m EXCEPT !.gets = Append(@, m.next_page_of_results), !.pc = "await"]

\* except (RequestError, HTTPStatusError): return None
ImportFailedPartial(m) == ReturnList(m)

ImportFailedRetry(m) == [m EXCEPT !.pc = "get"]

ImportFailed(m) == [m EXCEPT !.pc = "done", !.outcome = "None"]

\* The page of a successful response: the for loop, then the second limit
\* test, which leaves the while loop whatever the next link is.
OnPageNoSecondTest(m, o) ==
    LET n == [m EXCEPT !.next_page_of_results = o.next]
        loop == ForEachStar(n.repo_details, o.stars, n.total_repos)
        p == [n EXCEPT !.repo_details = loop.repo_details]
    IN  IF loop.raised
            THEN [p EXCEPT !.pc = "done", !.outcome = "raise",
                           !.error = "ValueError"]
            ELSE WhileNextPage(p)

OnPage(m, o) ==
    LET n == [m EXCEPT !.next_page_of_results = o.next]
        loop == ForEachStar(n.repo_details, o.stars, n.total_repos)
        p == [n EXCEPT !.repo_details = loop.repo_details]
    IN  IF loop.raised
            THEN [p EXCEPT !.pc = "done", !.outcome = "raise",
                           !.error = "ValueError"]
            ELSE IF LimitReached(p.repo_details, p.total_repos)
                     THEN ReturnList(p)
                     ELSE WhileNextPage(p)

\* The body of the try after the await.
AfterGet(m, o) ==
    LET n == [m EXCEPT !.responses = Append(@, o)]
    IN  CASE o.kind = "RequestError" -> ImportFailed(n)
          [] o.kind = "Response" /\ ~IsSuccess(o.status) ->
                 ImportFailed([n EXCEPT !.next_page_of_results = o.next])
          [] OTHER -> OnPage(n, o)

(***************************************************************************)
(* import_github_stars                                                     *)
(***************************************************************************)

\* The state of a call as it awaits _import_github_repo_details.  finished
\* is the order in which the tasks of asyncio.gather completed.
ImportGithubStars(username, total_repos) ==
    [username    |-> username,
     total_repos |-> total_repos,
     pc          |-> "import",
     outcome     |-> "pending",
     error       |-> "-",
     urls        |-> <<>>,
     finished    |-> <<>>]

\* [build_raw_github_url(repo["owner"], repo["repo_name"]) for repo in
\* repo_details], each wrapped in a task of its own by asyncio.gather.
BuildTasksArgumentsSwapped(repo_details) ==
    [i \in 1..Len(repo_details) |->
        Resolve("github", repo_details[i].repo_name, repo_details[i].owner,
                None, None)]

BuildTasks(repo_details) ==
    [i \in 1..Len(repo_details) |->
        Resolve("github", repo_details[i].owner, repo_details[i].repo_name,
                None, None)]

\* `for repo in repo_details` with repo_details None: TypeError.
IterateNoneAsEmpty(s) == [s EXCEPT !.pc = "gather"]

IterateNone(s) ==
    [s EXCEPT !.pc = "done", !.outcome = "raise", !.error = "TypeError"]

\* The code from the return of _import_github_repo_details to the await of
\* asyncio.gather; an exception of the importer passes through.
AfterImport(s, m) ==
    CASE m.pc # "done"       -> s
      [] m.outcome = "raise" ->
             [s EXCEPT !.pc = "done", !.outcome = "raise", !.error = m.error]
      [] m.outcome = "None"  -> IterateNone(s)
      [] m.outcome = "list"  -> [s EXCEPT !.pc = "gather"]

TasksAfterImport(s, m) ==
    IF AfterImport(s, m).pc = "gather" THEN BuildTasks(m.repo_details) ELSE <<>>

\* A step of the i-th task: it reads and writes its own frame only, each
\* call having entered an AsyncClient of its own.
HeadSent(ts, i) == [ts EXCEPT ![i] = SendHead(ts[i])]

HeadAnsweredSharedClient(ts, i, o) ==
    [j \in 1..Len(ts) |->
        IF j = i
            THEN AfterHead(ts[j], o)
            ELSE IF o.kind = "RequestError" /\ ts[j].pc = "await"
                     THEN Return(ts[j], None)
                     ELSE ts[j]]

HeadAnswered(ts, i, o) == [ts EXCEPT ![i] = AfterHead(ts[i], o)]

\* urls = await asyncio.gather(*build_tasks): the results by position in
\* build_tasks, or the exception of a task that raised.
GatherResultsAsCompleted(ts) ==
    [k \in 1..Len(ts) |-> ts[stars.finished[k]].result]

GatherResults(ts) == [i \in 1..Len(ts) |-> ts[i].result]

GatherReady(ts) ==
    \/ \E i \in 1..Len(ts) : ts[i].outcome = "raise"
    \/ \A i \in 1..Len(ts) : ts[i].pc = "done"

AfterGather(s, ts) ==
    IF \E i \in 1..Len(ts) : ts[i].outcome = "raise"
        THEN [s EXCEPT !.pc = "done", !.outcome = "raise",
                       !.error = ts[CHOOSE i \in 1..Len(ts) :
                                       ts[i].outcome = "raise"].error]
        ELSE [s EXCEPT !.pc = "done", !.outcome = "list",
                       !.urls = GatherResults(ts)]

(***************************************************************************)
(* The store of GitHub stars: github_stars_file, save_bookmarks,           *)
(* load_bookmarks                                                          *)
(***************************************************************************)

\* data_directory(): the directory that the data-directory resolver names.
DataDirectory == "/home/user/.local/share/frogmouth"

\* "{username}_github_stars.json", a plain string literal: its text is the
\* name as it stands, braces included.
FileNameLiteral == <<"{username}", "_github_stars.json">>

\* data_directory() / "{username}_github_stars.json"
GithubStarsFile(username) == Join(<<DataDirectory, "/">> \o FileNameLiteral)

\* A call github_stars_file(*args): the function has one required
\* parameter, and a call with no argument raises TypeError.
CallGithubStarsFile(args) ==
    IF Len(args) # 1
        THEN [raised |-> TRUE, error |-> "TypeError", path |-> None]
        ELSE [raised |-> FALSE, error |-> "-", path |-> GithubStarsFile(args[1])]

\* GitHubStar(title, location, date_starred)
GitHubStar(title, location, date_starred) ==
    [title |-> title, location |-> location, date_starred |-> date_starred]

\* GithubStarEncoder.default: str(o) for a Path or a URL, o itself for
\* anything else, which json then refuses (ValueError, circular reference).
Encodable(o) == o.kind \in {"str", "Path", "URL"}

EncoderDefault(o) ==
    IF o.kind \in {"Path", "URL"} THEN [kind |-> "str", text |-> o.text] ELSE o

\* dumps(bookmarks, indent=4, cls=GithubStarEncoder): every named tuple
\* becomes an array of its three fields, as strings.
Dumps(bookmarks) ==
    [i \in 1..Len(bookmarks) |->
        <<bookmarks[i].title,
          EncoderDefault(bookmarks[i].location).text,
          EncoderDefault(bookmarks[i].date_starred).text>>]

DumpsRaises(bookmarks) ==
    \E i \in 1..Len(bookmarks) :
        \/ ~Encodable(EncoderDefault(bookmarks[i].location))
        \/ ~Encodable(EncoderDefault(bookmarks[i].date_starred))

\* [GitHubStar(title, URL(location), date_starred) for ... in loads(text)]
Loads(text) ==
    [i \in 1..Len(text) |->
        GitHubStar(text[i][1], [kind |-> "URL", text |-> text[i][2]],
                   [kind |-> "str", text |-> text[i][3]])]

\* The files on disk are pairs of a path and a text.
Exists(files, path) == \E f \in files : f.path = path

ReadText(files, path) == (CHOOSE f \in files : f.path = path).text

WriteText(files, path, text) ==
    {f \in files : f.path # path} \cup {[path |-> path, text |-> text]}

\* The disk and what the calls made so far came to.
Store(files) ==
    [files   |-> files,
     op      |-> "none",
     asked   |-> {},
     saved   |-> <<>>,
     did_save |-> FALSE,
     loaded  |-> <<>>,
     outcome |-> "pending",
     error   |-> "-"]

\* github_stars_file(username), called with a username.
AskGithubStarsFile(st, username) ==
    LET f == CallGithubStarsFile(<<username>>)
    IN  [st EXCEPT !.op = "file",
                   !.asked = @ \cup {[username |-> username, path |-> f.path]},
                   !.outcome = "path",
                   !.error = "-"]

\* github_stars_file().write_text(dumps(bookmarks, ...))
SaveBookmarks(st, bookmarks) ==
    LET f == CallGithubStarsFile(<<>>)
        t == [st EXCEPT !.op = "save", !.saved = bookmarks, !.did_save = TRUE]
    IN  IF f.raised
            THEN [t EXCEPT !.outcome = "raise", !.error = f.error]
            ELSE IF DumpsRaises(bookmarks)
                     THEN [t EXCEPT !.outcome = "raise", !.error = "ValueError"]
                     ELSE [t EXCEPT !.outcome = "None", !.error = "-",
                                    !.files = WriteText(@, f.path,
                                                        Dumps(bookmarks))]

\* [...] if (github_stars := github_stars_file()).exists() else []
LoadBookmarks(st) ==
    LET f == CallGithubStarsFile(<<>>)
        t == [st EXCEPT !.op = "load", !.loaded = <<>>]
    IN  IF f.raised
            THEN [t EXCEPT !.outcome = "raise", !.error = f.error]
            ELSE IF Exists(st.files, f.path)
                     THEN [t EXCEPT !.outcome = "list", !.error = "-",
                                    !.loaded = Loads(ReadText(st.files, f.path))]
                     ELSE [t EXCEPT !.outcome = "list", !.error = "-"]

(***************************************************************************)
(* The calls that are checked and what the network answers                 *)
(***************************************************************************)

MaxPageLen == 2
MaxGets == 3
MaxLimit == 3
MaxTasks == 2
MaxBookmarks == 2

Owners == {"foo", "Textualize"}
Repositories == {"bar", "frogmouth"}
Branches == {None, "", "main", "dev"}
Files == {None, "", "index.md"}
Usernames == {"octocat"}
Limits == {NoLimit} \cup {<<n>> : n \in 0..MaxLimit}

Stars ==
    {Star("foo", "bar", Stamp(<<2023, 1, 1>>, "T", <<0, 0, 0>>, "Z")),
     Star("Textualize", "frogmouth", Stamp(<<2023, 4, 5>>, "T", <<6, 7, 8>>, "Z")),
     Star("foo", "frogmouth", Stamp(<<2023, 1, 1>>, " ", <<0, 0, 0>>, ""))}

StarPages == UNION {[1..n -> Stars] : n \in 0..MaxPageLen}

\* The link of rel="next" that the answer to the n-th request may carry.
NextLink(n) == "https://api.github.com/user/1/starred?page=" \o ToString(n + 1)

GetStatusCodes == {200, 304, 403, 500}

GetOutcomes(n) ==
    [kind : {"RequestError"}, error : RequestErrors, status : {0},
     stars : {<<>>}, next : {None}]
        \cup [kind : {"Response"}, error : {"-"},
              status : {s \in GetStatusCodes : ~IsSuccess(s)},
              stars : {<<>>}, next : {None, NextLink(n)}]
        \cup [kind : {"Response"}, error : {"-"},
              status : {s \in GetStatusCodes : IsSuccess(s)},
              stars : StarPages, next : {None, NextLink(n)}]

\* No call of that function is under way.
Idle == [pc |-> "idle"]

(***************************************************************************)
(* Spec: one call of one of the four build_raw_<forge>_url entry points    *)
(***************************************************************************)

Init ==
    /\ call \in {Resolve(f, o, r, b, d) :
                    f \in Forges, o \in Owners, r \in Repositories,
                    b \in Branches, d \in Files}
    /\ import = Idle
    /\ stars = Idle
    /\ tasks = <<>>
    /\ store = Idle

Probe ==
    /\ call.pc = "head"
    /\ call' = SendHead(call)
    /\ UNCHANGED <<import, stars, tasks, store>>

Probed ==
    /\ call.pc = "await"
    /\ \E o \in HeadOutcomes : call' = AfterHead(call, o)
    /\ UNCHANGED <<import, stars, tasks, store>>

Next == Probe \/ Probed

Spec == Init /\ [][Next]_vars

\* What the responses of the call so far were.
Succeeded(k) ==
    /\ k <= Len(call.responses)
    /\ call.responses[k].kind = "Response"
    /\ IsSuccess(call.responses[k].status)

Rejected(k) ==
    /\ k <= Len(call.responses)
    /\ call.responses[k].kind = "Response"
    /\ ~IsSuccess(call.responses[k].status)

TransportFailed(k) ==
    /\ k <= Len(call.responses)
    /\ call.responses[k].kind = "RequestError"

ProbedBranches == [k \in 1..Len(call.probes) |-> call.probes[k].branch]

\* The raw URL of a file as each forge documents it.
ExpectedURL(forge, owner, repository, branch, file) ==
    CASE forge = "github" ->
             "https://raw.githubusercontent.com/" \o owner \o "/" \o repository
                 \o "/" \o branch \o "/" \o file
      [] forge = "gitlab" ->
             "https://gitlab.com/" \o owner \o "/" \o repository \o "/-/raw/"
                 \o branch \o "/" \o file
      [] forge = "bitbucket" ->
             "https://bitbucket.org/" \o owner \o "/" \o repository \o "/raw/"
                 \o branch \o "/" \o file
      [] forge = "codeberg" ->
             "https://codeberg.org/" \o owner \o "/" \o repository
                 \o "/raw//branch/" \o branch \o "/" \o file

\* C1: called with no branch, the call returns the URL for "main" if the
\* probe of "main" had a success status; the URL for "master" if the probe
\* of "main" had a non-success status and that of "master" a success status;
\* and None, raising nothing, if both had a non-success status.
C1_BranchFallback ==
    (call.pc = "done" /\ call.branch = None) =>
        /\ Succeeded(1) =>
               /\ call.outcome = "URL"
               /\ call.result = ExpectedURL(call.forge, call.owner,
                                     call.repository, "main", call.desired_file)
        /\ (Rejected(1) /\ Succeeded(2)) =>
               /\ call.outcome = "URL"
               /\ call.result = ExpectedURL(call.forge, call.owner,
                                     call.repository, "master", call.desired_file)
        /\ (Rejected(1) /\ Rejected(2)) =>
               /\ call.outcome = "None"
               /\ call.result = None

C1_Witness ==
    /\ call.pc = "done"
    /\ call.branch = None
    /\ Rejected(1)
    /\ Succeeded(2)
    /\ call.result = "https://raw.githubusercontent.com/foo/bar/master/README.md"

\* C2: called with no branch, "main" is probed before "master" is, and
\* after a probe that had a success status no further probe is sent: the
\* probes sent are a prefix of main, master that ends with the first success.
C2_MainBeforeMasterStopAtSuccess ==
    call.branch = None =>
        /\ ProbedBranches \in {<<>>, <<"main">>, <<"main", "master">>}
        /\ \A k \in 1..Len(call.responses) :
               Succeeded(k) => (Len(call.probes) = k /\ call.pc = "done")

C2_Witness ==
    /\ call.branch = None
    /\ call.pc = "done"
    /\ Succeeded(1)
    /\ ProbedBranches = <<"main">>

\* C3: if the probe of the first test branch ends in a RequestError (the
\* request could not be made), the call returns None and that probe is the
\* only one it sent.
C3_TransportFailureShortCircuits ==
    TransportFailed(1) =>
        /\ call.pc = "done"
        /\ call.outcome = "None"
        /\ Len(call.probes) = 1

C3_Witness ==
    /\ TransportFailed(1)
    /\ call.pc = "done"
    /\ Len(call.branches) = 2
    /\ Len(call.probes) = 1

\* C4: whenever a branch is given, the empty string included, it is the
\* only branch probed: every probe is for it, and the call ends after
\* exactly one probe.
C4_GivenBranchIsSoleCandidate ==
    call.branch # None =>
        /\ \A k \in 1..Len(call.probes) : call.probes[k].branch = call.branch
        /\ call.pc = "done" => Len(call.probes) = 1

\* C5: for each of the four entry points, every URL that is probed, and
\* the URL returned on success, is the forge's documented raw URL of the
\* owner, the repository, the branch under test and the file, the file
\* being README.md when none is given (None, or empty); Codeberg's has the
\* doubled separator raw//branch/.
C5_ProbedURLIsTemplate ==
    LET file == IF call.given_file \in {None, ""}
                    THEN "README.md" ELSE call.given_file
    IN  /\ \A k \in 1..Len(call.probes) :
               call.probes[k].url =
                   ExpectedURL(call.forge, call.owner, call.repository,
                               call.probes[k].branch, file)
        /\ call.outcome = "URL" =>
               call.result =
                   ExpectedURL(call.forge, call.owner, call.repository,
                               call.branches[call.i], file)

C5_Witness ==
    /\ call.forge = "codeberg"
    /\ call.given_file = None
    /\ call.branch = "dev"
    /\ call.outcome = "URL"
    /\ call.result =
           "https://codeberg.org/Textualize/frogmouth/raw//branch/dev/README.md"

\* C6: whatever goes wrong with a probe (no DNS answer, connection
\* refused, timeout, a URL that is malformed, a non-success status), the
\* call ends by returning a URL or None and never by raising.
C6_NeverRaises ==
    call.pc = "done" => call.outcome \in {"URL", "None"}

(***************************************************************************)
(* ImportSpec: one call of _import_github_repo_details                     *)
(***************************************************************************)

ImportInit ==
    /\ import \in {Import(u, t) : u \in Usernames, t \in Limits}
    /\ call = Idle
    /\ stars = Idle
    /\ tasks = <<>>
    /\ store = Idle

Get ==
    /\ import.pc = "get"
    /\ Len(import.gets) < MaxGets
    /\ import' = SendGet(import)
    /\ UNCHANGED <<call, stars, tasks, store>>

Got ==
    /\ import.pc = "await"
    /\ \E o \in GetOutcomes(Len(import.gets)) : import' = AfterGet(import, o)
    /\ UNCHANGED <<call, stars, tasks, store>>

ImportNext == Get \/ Got

ImportSpec == ImportInit /\ [][ImportNext]_vars

\* What the answers to the GETs of the call so far were.
Fetched(k) ==
    /\ import.responses[k].kind = "Response"
    /\ IsSuccess(import.responses[k].status)

FetchFailed(k) == ~Fetched(k)

AllParse ==
    \A k \in 1..Len(import.responses) :
        \A j \in 1..Len(import.responses[k].stars) :
            Parses(import.responses[k].stars[j].starred_at)

\* The items of the pages received, in arrival order, as entries.
RECURSIVE Arrived(_)
Arrived(responses) ==
    IF responses = <<>>
        THEN <<>>
        ELSE Arrived(SubSeq(responses, 1, Len(responses) - 1))
                 \o [j \in 1..Len(responses[Len(responses)].stars) |->
                        Details(responses[Len(responses)].stars[j])]

Min(a, b) == IF a <= b THEN a ELSE b

\* Every GET but the first asks for the next link of the answer before it.
FollowsLinks ==
    /\ Len(import.gets) >= 1 => import.gets[1] = StarredURL(import.username)
    /\ \A k \in 2..Len(import.gets) :
           import.gets[k] = import.responses[k - 1].next

C8_AtMostLimit ==
    (import.outcome = "list" /\ import.total_repos # NoLimit) =>
        LET limit == import.total_repos[1]
            items == Arrived(import.responses)
        IN  /\ Len(import.repo_details) <= limit
            /\ import.repo_details = SubSeq(items, 1, Min(limit, Len(items)))
            /\ Len(import.repo_details) < limit =>
                   import.responses[Len(import.responses)].next = None

\* C9: once a page has been processed and the list has limit entries or
\* more, no further GET is sent, whether or not that page had a next link.
C9_NoGetAfterLimit ==
    [][(/\ import.total_repos # NoLimit
        /\ Len(import.responses) >= 1
        /\ Len(import.repo_details) >= import.total_repos[1])
       => import'.gets = import.gets]_vars

C9_Witness ==
    /\ import.pc = "done"
    /\ import.outcome = "list"
    /\ import.total_repos = <<2>>
    /\ Len(import.repo_details) = 2
    /\ Len(import.gets) = 2
    /\ import.responses[2].next # None

\* C10: if the GET of any page ends in a RequestError or in a non-success
\* status, the call returns None, not the entries of the pages before, and
\* that GET is its last.
C10_FailureReturnsNone ==
    \A k \in 1..Len(import.responses) :
        FetchFailed(k) =>
            /\ import.pc = "done"
            /\ import.outcome = "None"
            /\ Len(import.gets) = k

C10_Witness ==
    /\ import.pc = "done"
    /\ Len(import.responses) = 2
    /\ FetchFailed(2)
    /\ Len(import.repo_details) >= 1
    /\ import.outcome = "None"

\* The items of the pages received, in arrival order, as the feed sent them.
RECURSIVE ArrivedItems(_)
ArrivedItems(responses) ==
    IF responses = <<>>
        THEN <<>>
        ELSE ArrivedItems(SubSeq(responses, 1, Len(responses) - 1))
                 \o responses[Len(responses)].stars

\* The for loop gets to the p-th item that arrived: every item does when
\* there is no limit, and with a limit the first item and those up to it.
Processed(p) ==
    \/ import.total_repos = NoLimit
    \/ p = 1
    \/ p <= import.total_repos[1]

\* C11: if an item that the call processes has a starred_at that is not
\* in the format %Y-%m-%dT%H:%M:%SZ, the call ends by raising (ValueError):
\* it returns no list, neither one without that item nor one of the items
\* before it.
C11_UnparsedStampRaises ==
    (\E p \in 1..Len(ArrivedItems(import.responses)) :
        /\ Processed(p)
        /\ ~Parses(ArrivedItems(import.responses)[p].starred_at)) =>
        /\ import.pc = "done"
        /\ import.outcome = "raise"
        /\ import.error = "ValueError"

C11_Witness ==
    /\ import.pc = "done"
    /\ import.outcome = "raise"
    /\ Len(import.responses) = 2
    /\ Len(import.responses[2].stars) = 2
    /\ Parses(import.responses[2].stars[1].starred_at)
    /\ ~Parses(import.responses[2].stars[2].starred_at)
    /\ Len(import.repo_details) = 2

(***************************************************************************)
(* StarsSpec: one call of import_github_stars, the tasks it gathers        *)
(* running interleaved                                                     *)
(***************************************************************************)

\* One outcome of each kind for the requests of this specification.
TaskHeadOutcomes ==
    {o \in HeadOutcomes :
        o.error \in {"-", "ConnectTimeout", "InvalidURL"}
            /\ o.status \in {0, 200, 404}}

StarsGetOutcomes(n) ==
    {o \in GetOutcomes(n) :
        o.error \in {"-", "ConnectTimeout"} /\ o.status \in {0, 200, 403}}

StarsLimits == {NoLimit, <<0>>, <<2>>}

\* The feeds of this specification have no more pages than there may be
\* tasks.
MaxStarsGets == MaxTasks

StarsInit ==
    /\ \E u \in Usernames, t \in StarsLimits :
           /\ stars = ImportGithubStars(u, t)
           /\ import = Import(u, t)
    /\ tasks = <<>>
    /\ call = Idle
    /\ store = Idle

StarsGet ==
    /\ stars.pc = "import"
    /\ import.pc = "get"
    /\ Len(import.gets) < MaxStarsGets
    /\ import' = SendGet(import)
    /\ UNCHANGED <<call, stars, tasks, store>>

\* The answer to a GET; with the importer's return the call goes on, in
\* the same step, to build and gather the tasks.
StarsGot ==
    /\ stars.pc = "import"
    /\ import.pc = "await"
    /\ \E o \in StarsGetOutcomes(Len(import.gets)) :
           /\ import' = AfterGet(import, o)
           /\ Len(import'.repo_details) <= MaxTasks
           /\ stars' = AfterImport(stars, import')
           /\ tasks' = TasksAfterImport(stars, import')
    /\ UNCHANGED <<call, store>>

TaskProbe ==
    \E i \in 1..Len(tasks) :
        /\ tasks[i].pc = "head"
        /\ tasks' = HeadSent(tasks, i)
        /\ UNCHANGED <<call, import, stars, store>>

TaskProbed ==
    \E i \in 1..Len(tasks) :
        /\ tasks[i].pc = "await"
        /\ \E o \in TaskHeadOutcomes : tasks' = HeadAnswered(tasks, i, o)
        /\ stars' = IF tasks'[i].pc = "done"
                        THEN [stars EXCEPT !.finished = Append(@, i)]
                        ELSE stars
        /\ UNCHANGED <<call, import, store>>

Gathered ==
    /\ stars.pc = "gather"
    /\ GatherReady(tasks)
    /\ stars' = AfterGather(stars, tasks)
    /\ UNCHANGED <<call, import, tasks, store>>

StarsNext == StarsGet \/ StarsGot \/ TaskProbe \/ TaskProbed \/ Gathered

StarsSpec == StarsInit /\ [][StarsNext]_vars

\* What resolving the README of owner/repository on GitHub, with no branch
\* given, comes to when the probes are answered by responses: the URL of
\* the first branch of main, master whose probe had a success status.
FirstSuccess(responses) ==
    {k \in 1..Len(responses) :
        /\ responses[k].kind = "Response"
        /\ IsSuccess(responses[k].status)
        /\ \A h \in 1..(k - 1) : ~(/\ responses[h].kind = "Response"
                                     /\ IsSuccess(responses[h].status))}

OwnResult(owner, repository, responses) ==
    IF FirstSuccess(responses) = {}
        THEN None
        ELSE LET k == CHOOSE k \in FirstSuccess(responses) : TRUE
             IN  ExpectedURL("github", owner, repository,
                             <<"main", "master">>[k], "README.md")

\* C12: whatever the order in which the tasks run and complete, a list
\* that import_github_stars returns has one entry per entry of the
\* importer's list, and entry i is what resolving star i on GitHub, with no
\* branch and README.md, came to: a URL or None.
C12_OneEntryPerStarInOrder ==
    stars.outcome = "list" =>
        /\ import.outcome = "list"
        /\ Len(stars.urls) = Len(import.repo_details)
        /\ Len(tasks) = Len(import.repo_details)
        /\ \A i \in 1..Len(import.repo_details) :
               /\ stars.urls[i] =
                      OwnResult(import.repo_details[i].owner,
                                import.repo_details[i].repo_name,
                                tasks[i].responses)
               /\ \A k \in 1..Len(tasks[i].probes) :
                      tasks[i].probes[k].url =
                          ExpectedURL("github", import.repo_details[i].owner,
                                      import.repo_details[i].repo_name,
                                      <<"main", "master">>[k], "README.md")

C12_Witness ==
    /\ stars.outcome = "list"
    /\ stars.finished = <<2, 1>>
    /\ stars.urls =
           <<"https://raw.githubusercontent.com/foo/bar/main/README.md", None>>
    /\ Len(tasks[2].responses) = 1

\* C13: if the importer returns None, import_github_stars ends by raising:
\* it returns no list and no task is built, so no probe is sent.
C13_ImporterFailureRaises ==
    (import.pc = "done" /\ import.outcome = "None") =>
        /\ stars.pc = "done"
        /\ stars.outcome = "raise"
        /\ stars.urls = <<>>
        /\ tasks = <<>>

C13_Witness ==
    /\ import.pc = "done"
    /\ import.outcome = "None"
    /\ Len(import.repo_details) >= 1
    /\ stars.outcome = "raise"
    /\ stars.error = "TypeError"

\* C17: the tasks share no state.  A step changes the frame of one task at
\* most, and what a task ends in is what the answers to its own probes
\* make it: None after a RequestError of its own, whatever the other tasks
\* were answered.
C17_TasksAreIndependent ==
    [][/\ Len(tasks') = Len(tasks) =>
              \A i, j \in 1..Len(tasks) :
                  (i # j /\ tasks'[i] # tasks[i]) => tasks'[j] = tasks[j]
       /\ \A i \in 1..Len(tasks') :
              /\ tasks'[i].pc = "done" =>
                     /\ Len(tasks'[i].responses) >= 1
                     /\ tasks'[i].outcome # "raise" =>
                            tasks'[i].result =
                                OwnResult(tasks'[i].owner, tasks'[i].repository,
                                          tasks'[i].responses)
              /\ stars'.outcome = "list" =>
                     stars'.urls[i] =
                         OwnResult(tasks'[i].owner, tasks'[i].repository,
                                   tasks'[i].responses)]_vars

C17_Witness ==
    /\ stars.outcome = "list"
    /\ Len(tasks) = 2
    /\ tasks[1].responses[1].kind = "RequestError"
    /\ stars.urls[1] = None
    /\ stars.finished = <<1, 2>>
    /\ stars.urls[2] # None

\* C20: a probe is sent only after the importer has returned its list,
\* every GET answered; a GET is sent only when the one before it has been
\* answered and its page processed; and every probe is for a repository of
\* the importer's list.
C20_GetsThenProbes ==
    /\ Len(import.gets) =
           Len(import.responses) + (IF import.pc = "await" THEN 1 ELSE 0)
    /\ tasks # <<>> =>
           /\ import.pc = "done"
           /\ import.outcome = "list"
           /\ Len(import.gets) = Len(import.responses)
    /\ \A i \in 1..Len(tasks) : \A k \in 1..Len(tasks[i].probes) :
           \E n \in 1..Len(import.repo_details) :
               \E b \in {"main", "master"} :
                   tasks[i].probes[k].url =
                       ExpectedURL("github", import.repo_details[n].owner,
                                   import.repo_details[n].repo_name, b,
                                   "README.md")

C20_Witness ==
    /\ Len(import.gets) = 2
    /\ Len(tasks) = 2
    /\ Len(tasks[1].probes) = 2
    /\ Len(tasks[2].probes) = 1
    /\ stars.pc = "gather"

(***************************************************************************)
(* CoreSpec: one call of either function, a resolver entry point or the    *)
(* importer                                                                *)
(***************************************************************************)

CoreInit == Init \/ ImportInit

CoreNext == Probe \/ Probed \/ Get \/ Got

CoreSpec == CoreInit /\ [][CoreNext]_vars

Distinct(urls) ==
    \A h, k \in 1..Len(urls) : h # k => urls[h] # urls[k]

\* C18: nothing is tried twice.  A call of build_raw_forge_url probes no
\* URL more than once: at most two probes when no branch is given, and
\* exactly one by its end when one is; a call of the importer asks for no
\* URL twice and sends no GET after one that failed.
C18_NoRetries ==
    /\ call.pc # "idle" =>
           /\ Distinct([k \in 1..Len(call.probes) |-> call.probes[k].url])
           /\ Len(call.probes) <= 2
           /\ Len(call.probes) <= Len(call.responses) + 1
           /\ Truthy(call.branch) =>
                  /\ Len(call.probes) <= 1
                  /\ call.pc = "done" => Len(call.probes) = 1
    /\ import.pc # "idle" =>
           /\ Distinct(import.gets)
           /\ Len(import.gets) <= Len(import.responses) + 1
           /\ \A k \in 1..Len(import.responses) :
                  FetchFailed(k) => Len(import.gets) = k

C18_Witness ==
    /\ call.pc = "done"
    /\ call.branch = None
    /\ Len(call.probes) = 2
    /\ Rejected(1)
    /\ Rejected(2)

(***************************************************************************)
(* ChainSpec: one call of the importer on a feed that is a chain of at     *)
(* most MaxGets pages, every GET being answered in the end                 *)
(***************************************************************************)

\* The last page of the chain has no next link.
ChainOutcomes(n) ==
    {o \in GetOutcomes(n) : n >= MaxGets => o.next = None}

ChainGet ==
    /\ import.pc = "get"
    /\ import' = SendGet(import)
    /\ UNCHANGED <<call, stars, tasks, store>>

ChainGot ==
    /\ import.pc = "await"
    /\ \E o \in ChainOutcomes(Len(import.gets)) : import' = AfterGet(import, o)
    /\ UNCHANGED <<call, stars, tasks, store>>

ChainNext == ChainGet \/ ChainGot

ChainSpec ==
    ImportInit /\ [][ChainNext]_vars /\ WF_vars(ChainGet) /\ WF_vars(ChainGot)

\* The pages of the chain known so far: the first and every one linked to.
PagesKnown ==
    1 + Cardinality({k \in 1..Len(import.responses) :
                        import.responses[k].next # None})

\* C19: on a feed that is a finite chain of pages, with every GET
\* answered, the call ends, whatever the limit: with a list, with None or
\* with the ValueError of a starred_at; and it never sends more GETs than
\* the chain has pages.
C19_Terminates ==
    /\ <>(/\ import.pc = "done"
          /\ \/ import.outcome \in {"list", "None"}
             \/ import.outcome = "raise" /\ import.error = "ValueError")
    /\ [](Len(import.gets) <= PagesKnown /\ Len(import.gets) <= MaxGets)

C19_Witness ==
    /\ import.pc = "done"
    /\ import.total_repos = NoLimit
    /\ import.outcome = "list"
    /\ Len(import.gets) = MaxGets

(***************************************************************************)
(* StoreSpec: calls of github_stars_file, save_bookmarks and               *)
(* load_bookmarks, in any order, on a disk with or without a file          *)
(***************************************************************************)

StoreUsernames == {"octocat", "davep"}

Locations ==
    {[kind |-> "URL",
      text |-> "https://raw.githubusercontent.com/foo/bar/main/README.md"],
     [kind |-> "Path", text |-> "/home/user/notes/README.md"]}

DatesStarred ==
    {[kind |-> "datetime", text |-> "2023-01-01 00:00:00"],
     [kind |-> "str", text |-> "2023-01-01T00:00:00Z"]}

Bookmarks ==
    {GitHubStar(t, l, d) : t \in {"foo/bar"}, l \in Locations, d \in DatesStarred}

BookmarkLists == UNION {[1..n -> Bookmarks] : n \in 0..MaxBookmarks}

StoreInit ==
    /\ store \in {Store({}),
                   Store({[path |-> GithubStarsFile("octocat"), text |-> <<>>]})}
    /\ call = Idle
    /\ import = Idle
    /\ stars = Idle
    /\ tasks = <<>>

StarsFile ==
    /\ \E u \in StoreUsernames : store' = AskGithubStarsFile(store, u)
    /\ UNCHANGED <<call, import, stars, tasks>>

Save ==
    /\ \E b \in BookmarkLists : store' = SaveBookmarks(store, b)
    /\ UNCHANGED <<call, import, stars, tasks>>

Load ==
    /\ store' = LoadBookmarks(store)
    /\ UNCHANGED <<call, import, stars, tasks>>

StoreNext == StarsFile \/ Save \/ Load

StoreSpec == StoreInit /\ [][StoreNext]_vars

\* C14: saving N bookmarks, with URL and path locations, and loading
\* them both succeed, and the load yields the N records in order, title,
\* location (as a string) and date_starred as they were saved.
C14_RoundTrip ==
    /\ store.op = "save" => store.outcome = "None"
    /\ (store.op = "load" /\ store.did_save) =>
           /\ store.outcome = "list"
           /\ Len(store.loaded) = Len(store.saved)
           /\ \A i \in 1..Len(store.saved) :
                  /\ store.loaded[i].title = store.saved[i].title
                  /\ store.loaded[i].location.text = store.saved[i].location.text
                  /\ store.loaded[i].date_starred.text =
                         store.saved[i].date_starred.text

\* C15: with no bookmark file on disk, load_bookmarks returns the empty
\* list and does not fail.
C15_LoadWithoutFile ==
    (store.op = "load" /\ store.files = {}) =>
        /\ store.outcome = "list"
        /\ store.loaded = <<>>

\* C16: github_stars_file names one file per username: the paths it
\* returns for two different usernames differ.
C16_OneFilePerUsername ==
    \A a, b \in store.asked :
        a.username # b.username => a.path # b.path

====
